---- MODULE Spec2Model ----
(***************************************************************************)
(* Model of gen.py, the generator of the HIR type lattice table            *)
(* (type_generated.h).                                                     *)
(*                                                                         *)
(* A Python str is modelled as the sequence of its characters (each a      *)
(* one-character string), so that concatenation, len(), comparison and     *)
(* padding are computed character by character.  The fixed boilerplate     *)
(* texts (HEADER1, HEADER2, FOOTER, ...) are sequences of one fragment.    *)
(* A Python int is a TLA+ integer (no width); the bitwise operators are    *)
(* computed bit by bit.                                                    *)
(***************************************************************************)
EXTENDS Integers, Sequences, FiniteSets, TLC

(***************************************************************************)
(* String literals of the source.                                          *)
(***************************************************************************)
S_Array == <<"A", "r", "r", "a", "y">>
S_Bool == <<"B", "o", "o", "l">>
S_Slice == <<"S", "l", "i", "c", "e">>
S_Int == <<"I", "n", "t">>
S_Str == <<"S", "t", "r">>
S_List == <<"L", "i", "s", "t">>
S_ObjectExact == <<"O", "b", "j", "e", "c", "t", "E", "x", "a", "c", "t">>
S_ObjectUser == <<"O", "b", "j", "e", "c", "t", "U", "s", "e", "r">>
S_Exact == <<"E", "x", "a", "c", "t">>
S_User == <<"U", "s", "e", "r">>
S_Opt == <<"O", "p", "t">>
S_CInt8 == <<"C", "I", "n", "t", "8">>
S_CInt16 == <<"C", "I", "n", "t", "1", "6">>
S_CInt32 == <<"C", "I", "n", "t", "3", "2">>
S_CInt64 == <<"C", "I", "n", "t", "6", "4">>
S_CUInt8 == <<"C", "U", "I", "n", "t", "8">>
S_CUInt16 == <<"C", "U", "I", "n", "t", "1", "6">>
S_CUInt32 == <<"C", "U", "I", "n", "t", "3", "2">>
S_CUInt64 == <<"C", "U", "I", "n", "t", "6", "4">>
S_CBool == <<"C", "B", "o", "o", "l">>
S_CPtr == <<"C", "P", "t", "r">>
S_CDouble == <<"C", "D", "o", "u", "b", "l", "e">>
S_Nullptr == <<"N", "u", "l", "l", "p", "t", "r">>
S_BuiltinExact == <<"B", "u", "i", "l", "t", "i", "n", "E", "x", "a", "c", "t">>
S_Object == <<"O", "b", "j", "e", "c", "t">>
S_Top == <<"T", "o", "p">>
S_Bottom == <<"B", "o", "t", "t", "o", "m">>
S_Primitive == <<"P", "r", "i", "m", "i", "t", "i", "v", "e">>
S_CSigned == <<"C", "S", "i", "g", "n", "e", "d">>
S_CUnsigned == <<"C", "U", "n", "s", "i", "g", "n", "e", "d">>
S_CInt == <<"C", "I", "n", "t">>

(***************************************************************************)
(* The specification tables of the source (module-level lists).            *)
(***************************************************************************)
UnionSpec(name, components) == [name |-> name, components |-> components]

Type(name, bits) == [name |-> name, bits |-> bits]

BASIC_FINAL_TYPES == <<S_Array, S_Bool, S_Slice>>

BASIC_BASE_TYPES == <<S_Int, S_Str, S_List>>

BASIC_EXACT_TYPES ==
    <<S_ObjectExact>> \o [n \in 1..Len(BASIC_BASE_TYPES) |-> BASIC_BASE_TYPES[n] \o S_Exact]

BASIC_USER_TYPES ==
    <<S_ObjectUser>> \o [n \in 1..Len(BASIC_BASE_TYPES) |-> BASIC_BASE_TYPES[n] \o S_User]

BASIC_PYTYPES == BASIC_FINAL_TYPES \o BASIC_EXACT_TYPES \o BASIC_USER_TYPES

BASIC_INT_TYPES == <<S_CInt8, S_CInt16, S_CInt32, S_CInt64>>

BASIC_UINT_TYPES == <<S_CUInt8, S_CUInt16, S_CUInt32, S_CUInt64>>

BASIC_PRIMITIVE_TYPES ==
    <<S_CBool>> \o BASIC_INT_TYPES \o BASIC_UINT_TYPES \o <<S_CPtr, S_CDouble, S_Nullptr>>

\* PYTYPE_UNIONS with Object built from all basic types
PYTYPE_UNIONS_ObjectAll ==
    <<UnionSpec(S_BuiltinExact, BASIC_FINAL_TYPES \o BASIC_EXACT_TYPES)>>
    \o [n \in 1..Len(BASIC_BASE_TYPES) |->
          UnionSpec(BASIC_BASE_TYPES[n],
                    <<BASIC_BASE_TYPES[n] \o S_User, BASIC_BASE_TYPES[n] \o S_Exact>>)]
    \o <<UnionSpec(S_User, BASIC_USER_TYPES),
         UnionSpec(S_Object, BASIC_PYTYPES \o BASIC_PRIMITIVE_TYPES)>>

PYTYPE_UNIONS ==
    <<UnionSpec(S_BuiltinExact, BASIC_FINAL_TYPES \o BASIC_EXACT_TYPES)>>
    \o [n \in 1..Len(BASIC_BASE_TYPES) |->
          UnionSpec(BASIC_BASE_TYPES[n],
                    <<BASIC_BASE_TYPES[n] \o S_User, BASIC_BASE_TYPES[n] \o S_Exact>>)]
    \o <<UnionSpec(S_User, BASIC_USER_TYPES), UnionSpec(S_Object, BASIC_PYTYPES)>>

\* OTHER_UNIONS with CInt built from the unsigned types only
OTHER_UNIONS_CIntUnsignedOnly ==
    <<UnionSpec(S_Top, BASIC_PYTYPES \o BASIC_PRIMITIVE_TYPES),
      UnionSpec(S_Bottom, <<>>),
      UnionSpec(S_Primitive, BASIC_PRIMITIVE_TYPES),
      UnionSpec(S_CSigned, BASIC_INT_TYPES),
      UnionSpec(S_CUnsigned, BASIC_UINT_TYPES),
      UnionSpec(S_CInt, BASIC_UINT_TYPES)>>

OTHER_UNIONS ==
    <<UnionSpec(S_Top, BASIC_PYTYPES \o BASIC_PRIMITIVE_TYPES),
      UnionSpec(S_Bottom, <<>>),
      UnionSpec(S_Primitive, BASIC_PRIMITIVE_TYPES),
      UnionSpec(S_CSigned, BASIC_INT_TYPES),
      UnionSpec(S_CUnsigned, BASIC_UINT_TYPES),
      UnionSpec(S_CInt, BASIC_UINT_TYPES \o BASIC_INT_TYPES)>>

HEADER1 ==
    <<"// Copyright (c) Meta Platforms, Inc. and affiliates.\n\n#pragma once\n\n// This file is @">>

HEADER2 ==
    <<"generated by generate_jit_type_h.py.\n// Run 'make regen-jit' to update it.\n\nnamespace jit::hir {\n\n// clang-format off\n">>

FOOTER == <<"\n// clang-format on\n\n} // namespace jit::hir\n">>

\* The tables as the generator reads them.
SourceTables ==
    [basic_pytypes |-> BASIC_PYTYPES,
     basic_primitive_types |-> BASIC_PRIMITIVE_TYPES,
     pytype_unions |-> PYTYPE_UNIONS,
     other_unions |-> OTHER_UNIONS]

(***************************************************************************)
(* Edited tables: the same generator run on tables a maintainer could      *)
(* write.  The code reads the tables as they are and validates nothing.    *)
(***************************************************************************)
S_Tuple == <<"T", "u", "p", "l", "e">>

\* CInt written as the union of the two earlier unions CUnsigned and CSigned.
UnionOfUnionsTables ==
    [SourceTables EXCEPT !.other_unions =
        SubSeq(OTHER_UNIONS, 1, 5) \o <<UnionSpec(S_CInt, <<S_CUnsigned, S_CSigned>>)>>]

\* The same CInt, listed before the unions it names.
LaterUnionTables ==
    [SourceTables EXCEPT !.other_unions =
        SubSeq(OTHER_UNIONS, 1, 3) \o <<UnionSpec(S_CInt, <<S_CUnsigned, S_CSigned>>)>>
        \o SubSeq(OTHER_UNIONS, 4, 5)]

\* Object lists a component that no table defines.
UnknownComponentTables ==
    [SourceTables EXCEPT !.pytype_unions =
        SubSeq(PYTYPE_UNIONS, 1, 5) \o <<UnionSpec(S_Object, BASIC_PYTYPES \o <<S_Tuple>>)>>]

\* "Bool" listed twice among the basic Python types.
DuplicatePytypeTables ==
    [SourceTables EXCEPT !.basic_pytypes = BASIC_PYTYPES \o <<S_Bool>>]

\* "CPtr" listed twice among the basic primitive types.
DuplicatePrimitiveTables ==
    [SourceTables EXCEPT !.basic_primitive_types =
        SubSeq(BASIC_PRIMITIVE_TYPES, 1, 10) \o <<S_CPtr>> \o SubSeq(BASIC_PRIMITIVE_TYPES, 11, 12)]

EditedTables ==
    {SourceTables, UnionOfUnionsTables, LaterUnionTables, UnknownComponentTables,
     DuplicatePytypeTables, DuplicatePrimitiveTables}

(***************************************************************************)
(* Python built-ins used by the generator.                                 *)
(***************************************************************************)
\* Number of generator runs explored.
MaxRuns == 2

\* a | b on non-negative ints
RECURSIVE BitOr(_, _)
BitOr(a, b) ==
    IF a = 0 THEN b
    ELSE IF b = 0 THEN a
    ELSE (IF a % 2 = 1 \/ b % 2 = 1 THEN 1 ELSE 0) + 2 * BitOr(a \div 2, b \div 2)

\* 1 << n
RECURSIVE Shl1(_)
Shl1(n) == IF n = 0 THEN 1 ELSE 2 * Shl1(n - 1)

\* a reduce that starts from the first component and never ORs it in
RECURSIVE ReduceOr_SkipsFirst(_, _)
ReduceOr_SkipsFirst(m, components) ==
    IF Len(components) <= 1 THEN 0
    ELSE BitOr(ReduceOr_SkipsFirst(m, SubSeq(components, 1, Len(components) - 1)),
               m[components[Len(components)]])

\* reduce(operator.or_, [m[t] for t in components], 0)
RECURSIVE ReduceOr(_, _)
ReduceOr(m, components) ==
    IF components = <<>> THEN 0
    ELSE BitOr(ReduceOr(m, SubSeq(components, 1, Len(components) - 1)),
               m[components[Len(components)]])

\* ord(c) for the characters of type names
UPPER ==
    <<"A", "B", "C", "D", "E", "F", "G", "H", "I", "J", "K", "L", "M",
      "N", "O", "P", "Q", "R", "S", "T", "U", "V", "W", "X", "Y", "Z">>

LOWER ==
    <<"a", "b", "c", "d", "e", "f", "g", "h", "i", "j", "k", "l", "m",
      "n", "o", "p", "q", "r", "s", "t", "u", "v", "w", "x", "y", "z">>

DIGITS == <<"0", "1", "2", "3", "4", "5", "6", "7", "8", "9">>

Ord(c) ==
    IF \E n \in 1..10 : DIGITS[n] = c THEN 47 + (CHOOSE n \in 1..10 : DIGITS[n] = c)
    ELSE IF \E n \in 1..26 : UPPER[n] = c THEN 64 + (CHOOSE n \in 1..26 : UPPER[n] = c)
    ELSE 96 + (CHOOSE n \in 1..26 : LOWER[n] = c)

\* a < b on str: code point order, a proper prefix is smaller
RECURSIVE StrLess(_, _)
StrLess(a, b) ==
    IF b = <<>> THEN FALSE
    ELSE IF a = <<>> THEN TRUE
    ELSE IF Head(a) = Head(b) THEN StrLess(Tail(a), Tail(b))
    ELSE Ord(Head(a)) < Ord(Head(b))

\* the list left in the order generate_types built it
SortByName_Unsorted(ts) == ts

\* list.sort(key=lambda t: t[0]): stable, ascending by name
SortByName(ts) ==
    LET \* the place of ts[n]: after every entry with a smaller name, and
        \* after the earlier entries with the same name
        place(n) == 1 + Cardinality({m \in 1..Len(ts) :
                            \/ StrLess(ts[m].name, ts[n].name)
                            \/ (m < n /\ ts[m].name = ts[n].name)})
    IN  [q \in 1..Len(ts) |-> ts[CHOOSE n \in 1..Len(ts) : place(n) = q]]

Max(a, b) == IF a >= b THEN a ELSE b

RECURSIVE Pow16(_)
Pow16(n) == IF n = 0 THEN 1 ELSE 16 * Pow16(n - 1)

\* math.ceil(math.log(n, 16)) for n >= 1: the least d with 16^d >= n.
\* math.log(n, 16) is the quotient of two floats; at the exact powers of 16
\* below 2^31 CPython returns the exact integer, so the ceiling is the exact one.
RECURSIVE CeilLog16From(_, _)
CeilLog16From(n, d) == IF Pow16(d) >= n THEN d ELSE CeilLog16From(n, d + 1)

CeilLog16(n) == CeilLog16From(n, 0)

HEXDIGITS == DIGITS \o SubSeq(LOWER, 1, 6)

\* format(n, "x")
RECURSIVE Hex(_)
Hex(n) == IF n < 16 THEN <<HEXDIGITS[n + 1]>> ELSE Hex(n \div 16) \o <<HEXDIGITS[(n % 16) + 1]>>

Repeat(c, n) == [m \in 1..n |-> c]

\* format(n, "d") for n >= 0
RECURSIVE Dec(_)
Dec(n) == IF n < 10 THEN <<DIGITS[n + 1]>> ELSE Dec(n \div 10) \o <<DIGITS[(n % 10) + 1]>>

\* f"{s:{width}}": left-justified, padded with spaces, never truncated
FormatStr(s, width) == s \o Repeat(" ", Max(0, width - Len(s)))

\* f"{n:#x}": no width, no zero fill
FormatHex_NoZeroFill(n, width) == <<"0", "x">> \o Hex(n)

\* f"{n:#0{width}x}": "0x", then zero fill up to width, then the hex digits
FormatHex(n, width) ==
    <<"0", "x">> \o Repeat("0", Max(0, width - 2 - Len(Hex(n)))) \o Hex(n)

(***************************************************************************)
(* State.                                                                  *)
(*   tables        the module-level specification tables                   *)
(*   pc            where the run is: "idle" (not started), "assign_bits",  *)
(*                 "assign" (loops of assign_bits), "generate" (loops of   *)
(*                 generate_types), "widths" and "records" (loops of       *)
(*                 write_types), "done" (main returned), "error" (an       *)
(*                 exception left main)                                    *)
(*   bit_idx, bits locals of assign_bits; i, u index its two loops         *)
(*   types, num_bits, nullptr_bit  locals of generate_types; j indexes     *)
(*                 its three loops, one after the other                    *)
(*   max_ty_len, max_bits_len      locals of write_types; k indexes its    *)
(*                 two loops over types                                    *)
(*   out           the writes made to the output file, in order            *)
(*   runs, prev_out  number of runs started, and the writes of the run     *)
(*                 before the current one                                  *)
(***************************************************************************)
VARIABLES tables, pc, bit_idx, bits, i, u, types, num_bits, nullptr_bit, j,
          max_ty_len, max_bits_len, k, out, runs, prev_out

vars == <<tables, pc, bit_idx, bits, i, u, types, num_bits, nullptr_bit, j,
          max_ty_len, max_bits_len, k, out, runs, prev_out>>

\* BASIC_TYPES = BASIC_PYTYPES + BASIC_PRIMITIVE_TYPES
BASIC_TYPES == tables.basic_pytypes \o tables.basic_primitive_types

\* PYTYPE_UNIONS + OTHER_UNIONS
AllUnions == tables.pytype_unions \o tables.other_unions

\* BASIC_PYTYPES + [p[0] for p in PYTYPE_UNIONS]
OptEligible ==
    tables.basic_pytypes \o [n \in 1..Len(tables.pytype_unions) |-> tables.pytype_unions[n].name]

EmptyDict == [n \in {} |-> 0]

\* d[key] = value
DictSet(d, key, value) == [n \in DOMAIN d \cup {key} |-> IF n = key THEN value ELSE d[n]]

InitLocals ==
    /\ pc = "idle"
    /\ bit_idx = 0
    /\ bits = EmptyDict
    /\ i = 1
    /\ u = 1
    /\ types = <<>>
    /\ num_bits = 0
    /\ nullptr_bit = 0
    /\ j = 1
    /\ max_ty_len = 0
    /\ max_bits_len = 0
    /\ k = 1
    /\ out = <<>>
    /\ runs = 0
    /\ prev_out = <<>>

Init == tables = SourceTables /\ InitLocals

InitEdited == tables \in EditedTables /\ InitLocals

\* main: open the output file for writing (it is truncated) and call
\* write_types, which calls generate_types, which calls assign_bits.
Main ==
    /\ pc \in {"idle", "done", "error"}
    /\ runs < MaxRuns
    /\ runs' = runs + 1
    /\ prev_out' = out
    /\ out' = <<>>
    /\ pc' = "assign_bits"
    /\ UNCHANGED <<tables, bit_idx, bits, i, u, types, num_bits, nullptr_bit, j,
                   max_ty_len, max_bits_len, k>>

\* assign_bits: bit_idx = 0; bits = {}
AssignBitsInit ==
    /\ pc = "assign_bits"
    /\ bit_idx' = 0
    /\ bits' = EmptyDict
    /\ i' = 1
    /\ u' = 1
    /\ pc' = "assign"
    /\ UNCHANGED <<tables, types, num_bits, nullptr_bit, j, max_ty_len, max_bits_len,
                   k, out, runs, prev_out>>

\* the loop without bit_idx += 1
AssignBasic_NoIncrement ==
    /\ pc = "assign"
    /\ i <= Len(BASIC_TYPES)
    /\ bits' = DictSet(bits, BASIC_TYPES[i], Shl1(bit_idx))
    /\ i' = i + 1
    /\ UNCHANGED <<tables, pc, bit_idx, u, types, num_bits, nullptr_bit, j, max_ty_len,
                   max_bits_len, k, out, runs, prev_out>>

\* one iteration of: for ty in BASIC_TYPES
AssignBasic ==
    /\ pc = "assign"
    /\ i <= Len(BASIC_TYPES)
    /\ bits' = DictSet(bits, BASIC_TYPES[i], Shl1(bit_idx))
    /\ bit_idx' = bit_idx + 1
    /\ i' = i + 1
    /\ UNCHANGED <<tables, pc, u, types, num_bits, nullptr_bit, j, max_ty_len,
                   max_bits_len, k, out, runs, prev_out>>

\* the loop with bits.get(t, 0) in place of bits[t]
ResolveUnion_DefaultZero ==
    /\ pc = "assign"
    /\ i > Len(BASIC_TYPES)
    /\ u <= Len(AllUnions)
    /\ LET ty == AllUnions[u].name
           components == AllUnions[u].components
           get == [t \in DOMAIN bits \cup {components[n] : n \in 1..Len(components)} |->
                     IF t \in DOMAIN bits THEN bits[t] ELSE 0]
       IN  bits' = DictSet(bits, ty, ReduceOr(get, components))
    /\ u' = u + 1
    /\ UNCHANGED <<tables, pc, bit_idx, i, types, num_bits, nullptr_bit, j, max_ty_len,
                   max_bits_len, k, out, runs, prev_out>>

\* one iteration of: for ty, components in PYTYPE_UNIONS + OTHER_UNIONS.
\* bits[t] of a name that is not a key raises KeyError, which nothing catches.
ResolveUnion ==
    /\ pc = "assign"
    /\ i > Len(BASIC_TYPES)
    /\ u <= Len(AllUnions)
    /\ LET ty == AllUnions[u].name
           components == AllUnions[u].components
       IN  IF \A n \in 1..Len(components) : components[n] \in DOMAIN bits
           THEN /\ bits' = DictSet(bits, ty, ReduceOr(bits, components))
                /\ u' = u + 1
                /\ pc' = pc
           ELSE /\ pc' = "error"
                /\ UNCHANGED <<bits, u>>
    /\ UNCHANGED <<tables, bit_idx, i, types, num_bits, nullptr_bit, j, max_ty_len,
                   max_bits_len, k, out, runs, prev_out>>

\* generate_types appending to a list that outlives the call
GenerateTypesInit_KeepsTypes ==
    /\ pc = "assign"
    /\ i > Len(BASIC_TYPES)
    /\ u > Len(AllUnions)
    /\ num_bits' = bit_idx
    /\ j' = 1
    /\ IF S_Nullptr \in DOMAIN bits
       THEN nullptr_bit' = bits[S_Nullptr] /\ pc' = "generate"
       ELSE pc' = "error" /\ UNCHANGED nullptr_bit
    /\ UNCHANGED <<tables, bit_idx, bits, i, u, types, max_ty_len, max_bits_len, k, out,
                   runs, prev_out>>

\* assign_bits returns (bits, bit_idx); generate_types: types = [];
\* nullptr_bit = bits["Nullptr"]
GenerateTypesInit ==
    /\ pc = "assign"
    /\ i > Len(BASIC_TYPES)
    /\ u > Len(AllUnions)
    /\ num_bits' = bit_idx
    /\ types' = <<>>
    /\ j' = 1
    /\ IF S_Nullptr \in DOMAIN bits
       THEN nullptr_bit' = bits[S_Nullptr] /\ pc' = "generate"
       ELSE pc' = "error" /\ UNCHANGED nullptr_bit
    /\ UNCHANGED <<tables, bit_idx, bits, i, u, max_ty_len, max_bits_len, k, out,
                   runs, prev_out>>

\* append_opt without the Nullptr bit
append_opt_PlainBits(ts, name, b) == ts \o <<Type(name, b), Type(S_Opt \o name, b)>>

\* append_opt(name, bits)
append_opt(ts, name, b) ==
    ts \o <<Type(name, b), Type(S_Opt \o name, BitOr(b, nullptr_bit))>>

\* one iteration of: for ty in BASIC_PYTYPES + [p[0] for p in PYTYPE_UNIONS]
AppendOpt ==
    /\ pc = "generate"
    /\ j <= Len(OptEligible)
    /\ types' = append_opt(types, OptEligible[j], bits[OptEligible[j]])
    /\ j' = j + 1
    /\ UNCHANGED <<tables, pc, bit_idx, bits, i, u, num_bits, nullptr_bit, max_ty_len,
                   max_bits_len, k, out, runs, prev_out>>

\* one iteration of: for ty in BASIC_PRIMITIVE_TYPES
AppendPrimitive ==
    /\ pc = "generate"
    /\ j > Len(OptEligible)
    /\ j <= Len(OptEligible) + Len(tables.basic_primitive_types)
    /\ LET ty == tables.basic_primitive_types[j - Len(OptEligible)]
       IN  types' = Append(types, Type(ty, bits[ty]))
    /\ j' = j + 1
    /\ UNCHANGED <<tables, pc, bit_idx, bits, i, u, num_bits, nullptr_bit, max_ty_len,
                   max_bits_len, k, out, runs, prev_out>>

\* one iteration of: for ty, _ in OTHER_UNIONS
AppendOther ==
    /\ pc = "generate"
    /\ j > Len(OptEligible) + Len(tables.basic_primitive_types)
    /\ j <= Len(OptEligible) + Len(tables.basic_primitive_types) + Len(tables.other_unions)
    /\ LET ty == tables.other_unions[j - Len(OptEligible) - Len(tables.basic_primitive_types)].name
       IN  types' = Append(types, Type(ty, bits[ty]))
    /\ j' = j + 1
    /\ UNCHANGED <<tables, pc, bit_idx, bits, i, u, num_bits, nullptr_bit, max_ty_len,
                   max_bits_len, k, out, runs, prev_out>>

\* generate_types returns; write_types: types.sort(key=lambda t: t[0]);
\* max_ty_len = 0; max_bits_len = 0
SortTypes ==
    /\ pc = "generate"
    /\ j > Len(OptEligible) + Len(tables.basic_primitive_types) + Len(tables.other_unions)
    /\ types' = SortByName(types)
    /\ max_ty_len' = 0
    /\ max_bits_len' = 0
    /\ k' = 1
    /\ pc' = "widths"
    /\ UNCHANGED <<tables, bit_idx, bits, i, u, num_bits, nullptr_bit, j, out, runs,
                   prev_out>>

\* one iteration of the first: for ty, bits in types
ComputeWidths ==
    /\ pc = "widths"
    /\ k <= Len(types)
    /\ max_ty_len' = Max(max_ty_len, Len(types[k].name) + 1)
    /\ max_bits_len' = Max(max_bits_len, CeilLog16(types[k].bits + 1) + 2)
    /\ k' = k + 1
    /\ UNCHANGED <<tables, pc, bit_idx, bits, i, u, types, num_bits, nullptr_bit, j,
                   out, runs, prev_out>>

\* the five writes before the records
WriteHeader ==
    /\ pc = "widths"
    /\ k > Len(types)
    /\ out' = out \o <<HEADER1, HEADER2, <<"\n">>,
                       <<"// For all types, call X(name, bits)\n">>,
                       <<"#define HIR_TYPES(X)">> >>
    /\ k' = 1
    /\ pc' = "records"
    /\ UNCHANGED <<tables, bit_idx, bits, i, u, types, num_bits, nullptr_bit, j,
                   max_ty_len, max_bits_len, runs, prev_out>>

\* f"  X({ty_arg:{max_ty_len}} {bits:#0{max_bits_len}x}UL)"
RecordLine(ty, b) ==
    <<" ", " ", "X", "(">> \o FormatStr(ty \o <<",">>, max_ty_len) \o <<" ">>
    \o FormatHex(b, max_bits_len) \o <<"U", "L", ")">>

\* one iteration of the second: for ty, bits in types
WriteRecord ==
    /\ pc = "records"
    /\ k <= Len(types)
    /\ out' = Append(out, <<" ", "\\", "\n">> \o RecordLine(types[k].name, types[k].bits))
    /\ k' = k + 1
    /\ UNCHANGED <<tables, pc, bit_idx, bits, i, u, types, num_bits, nullptr_bit, j,
                   max_ty_len, max_bits_len, runs, prev_out>>

\* the three writes after the records; write_types and main return and the
\* file is closed
WriteFooter ==
    /\ pc = "records"
    /\ k > Len(types)
    /\ out' = out \o <<<<"\n\n">>,
                       <<"constexpr size_t kNumTypeBits = ">> \o Dec(num_bits) \o <<";\n">>,
                       FOOTER>>
    /\ pc' = "done"
    /\ UNCHANGED <<tables, bit_idx, bits, i, u, types, num_bits, nullptr_bit, j,
                   max_ty_len, max_bits_len, k, runs, prev_out>>

Next ==
    \/ Main
    \/ AssignBitsInit
    \/ AssignBasic
    \/ ResolveUnion
    \/ GenerateTypesInit
    \/ AppendOpt
    \/ AppendPrimitive
    \/ AppendOther
    \/ SortTypes
    \/ ComputeWidths
    \/ WriteHeader
    \/ WriteRecord
    \/ WriteFooter

\* the generator on the tables of the source
Spec == Init /\ [][Next]_vars

\* the generator on the source's tables and on edited tables
SpecEdited == InitEdited /\ [][Next]_vars

(***************************************************************************)
(* Vocabulary of the properties.  Bitmasks are read as sets of bit         *)
(* indices, names are read back from the written records.                  *)
(***************************************************************************)
RECURSIVE SetBitsFrom(_, _)
SetBitsFrom(x, n) ==
    IF x = 0 THEN {}
    ELSE (IF x % 2 = 1 THEN {n} ELSE {}) \cup SetBitsFrom(x \div 2, n + 1)

\* the indices of the bits set in x
SetBits(x) == SetBitsFrom(x, 0)

Range(f) == {f[n] : n \in DOMAIN f}

\* assign_bits has returned in the current run
AssignBitsReturned == pc \in {"generate", "widths", "records", "done"}

\* generate_types has returned in the current run
GenerateTypesReturned == pc \in {"widths", "records", "done"}

\* the entries of types with the given name
Entries(name) == {n \in 1..Len(types) : types[n].name = name}

\* a write of out that is a record of the table
IsRecord(w) == Len(w) > 3 /\ w[1] = " " /\ w[2] = "\\"

Records == SelectSeq(out, IsRecord)

\* the name of a record: the characters after " \\\n  X(" up to the comma
RECURSIVE UpToComma(_)
UpToComma(w) == IF w = <<>> \/ Head(w) = "," THEN <<>> ELSE <<Head(w)>> \o UpToComma(Tail(w))

RecordName(w) == UpToComma(SubSeq(w, 8, Len(w)))

DigitValue(c) == (CHOOSE n \in 1..16 : HEXDIGITS[n] = c) - 1

IsHexDigit(c) == \E n \in 1..16 : HEXDIGITS[n] = c

RECURSIVE ParseInt(_, _)
ParseInt(w, base) ==
    IF w = <<>> THEN 0
    ELSE base * ParseInt(SubSeq(w, 1, Len(w) - 1), base) + DigitValue(w[Len(w)])

RECURSIVE NumHexDigits(_)
NumHexDigits(n) == IF n < 16 THEN 1 ELSE 1 + NumHexDigits(n \div 16)

MaxOf(S) == CHOOSE m \in S : \A n \in S : n <= m

(***************************************************************************)
(* C1: after assign_bits, every basic type maps to a bitmask with exactly  *)
(* one set bit, no two basic types (two positions of BASIC_TYPES) map to   *)
(* the same bitmask, and the returned bit count, which is the number       *)
(* emitted as kNumTypeBits, equals the number of basic types.              *)
(***************************************************************************)
C1_BasicBitsDistinct ==
    /\ AssignBitsReturned =>
          /\ \A n \in 1..Len(BASIC_TYPES) : Cardinality(SetBits(bits[BASIC_TYPES[n]])) = 1
          /\ \A n, m \in 1..Len(BASIC_TYPES) :
                n # m => bits[BASIC_TYPES[n]] # bits[BASIC_TYPES[m]]
          /\ num_bits = Len(BASIC_TYPES)
    /\ pc = "done" =>
          LET w == out[Len(out) - 1]
          IN  /\ w[1] = "constexpr size_t kNumTypeBits = "
              /\ w[Len(w)] = ";\n"
              /\ ParseInt(SubSeq(w, 2, Len(w) - 1), 10) = Len(BASIC_TYPES)

C1_Witness ==
    /\ pc = "done"
    /\ Len(BASIC_TYPES) = 23
    /\ bits[S_Array] = 1
    /\ bits[S_Nullptr] = 4194304

(***************************************************************************)
(* C2: every union resolved so far (PYTYPE_UNIONS, then OTHER_UNIONS, in   *)
(* order) has as its bitmask the bitwise OR of the bitmasks its components *)
(* have in the mapping, basic types and earlier unions alike; a union      *)
(* with no components has bitmask 0.                                       *)
(***************************************************************************)
C2_UnionIsOrOfComponents ==
    \A n \in 1..(u - 1) :
        LET un == AllUnions[n]
        IN  /\ SetBits(bits[un.name]) =
                 UNION {SetBits(bits[c]) : c \in Range(un.components)}
            /\ un.components = <<>> => bits[un.name] = 0

C2_Witness ==
    /\ tables = UnionOfUnionsTables
    /\ u > Len(AllUnions)
    /\ bits[S_CInt] = 1044480
    /\ bits[S_Bottom] = 0
    /\ bits[S_Object] = 2047

(***************************************************************************)
(* C3: generate_types returns exactly one entry T and exactly one entry    *)
(* "Opt"+T, with bits(OptT) = bits(T) | bits(Nullptr), for every basic     *)
(* Python type and every PYTYPE_UNIONS name T; and exactly one entry and   *)
(* no "Opt" entry for every basic primitive type and OTHER_UNIONS name.    *)
(***************************************************************************)
C3_OptVariants ==
    GenerateTypesReturned =>
        /\ \A T \in Range(OptEligible) :
              /\ Cardinality(Entries(T)) = 1
              /\ Cardinality(Entries(S_Opt \o T)) = 1
              /\ \A n \in Entries(T) : types[n].bits = bits[T]
              /\ \A n \in Entries(S_Opt \o T) :
                    SetBits(types[n].bits) = SetBits(bits[T]) \cup SetBits(bits[S_Nullptr])
        /\ \A P \in Range(tables.basic_primitive_types)
                     \cup {tables.other_unions[n].name : n \in 1..Len(tables.other_unions)} :
              /\ Cardinality(Entries(P)) = 1
              /\ \A n \in Entries(P) : types[n].bits = bits[P]
              /\ Entries(S_Opt \o P) = {}

C3_Witness ==
    /\ GenerateTypesReturned
    /\ Len(types) = 52
    /\ \E n \in 1..Len(types) : types[n] = Type(S_Opt \o S_Object, 4194304 + 2047)
    /\ \E n \in 1..Len(types) : types[n] = Type(S_CPtr, 1048576)

(***************************************************************************)
(* C4: in the resolved lattice Top has exactly the bits of all basic       *)
(* types, which are the kNumTypeBits low bits; Bottom is 0; and CInt is    *)
(* the OR of CSigned and CUnsigned.                                        *)
(***************************************************************************)
C4_TopBottomCInt ==
    AssignBitsReturned =>
        /\ SetBits(bits[S_Top]) = UNION {SetBits(bits[b]) : b \in Range(BASIC_TYPES)}
        /\ SetBits(bits[S_Top]) = 0..(num_bits - 1)
        /\ bits[S_Bottom] = 0
        /\ SetBits(bits[S_CInt]) = SetBits(bits[S_CSigned]) \cup SetBits(bits[S_CUnsigned])

C4_Witness ==
    /\ AssignBitsReturned
    /\ bits[S_Top] = 8388607
    /\ bits[S_CSigned] = 61440
    /\ bits[S_CUnsigned] = 983040

(***************************************************************************)
(* C5: the records written appear in strictly increasing lexicographic     *)
(* order of name, so no name is written twice.                             *)
(***************************************************************************)
C5_RecordsStrictlySorted ==
    /\ \A n \in 1..(Len(Records) - 1) :
          StrLess(RecordName(Records[n]), RecordName(Records[n + 1]))
    /\ \A n, m \in 1..Len(Records) :
          n # m => RecordName(Records[n]) # RecordName(Records[m])
    /\ pc = "done" =>
          /\ Len(Records) = Len(types)
          /\ \A n \in 1..Len(types) : RecordName(Records[n]) = types[n].name

C5_Witness ==
    /\ pc = "done"
    /\ Len(Records) = 52
    /\ RecordName(Records[1]) = S_Array
    /\ RecordName(Records[7]) = S_CInt
    /\ RecordName(Records[8]) = S_CInt16
    /\ RecordName(Records[52]) = S_User

(***************************************************************************)
(* C6: a run that follows another run on the same tables makes the same    *)
(* sequence of writes, whatever the earlier run left behind.               *)
(***************************************************************************)
C6_Deterministic == (pc = "done" /\ runs >= 2) => out = prev_out

C6_Witness == pc = "done" /\ runs >= 2 /\ Len(prev_out) = 60

(***************************************************************************)
(* C7: when a union lists a component that is neither a basic type nor an  *)
(* earlier union, the run never gets past that union: the union is never   *)
(* given a bitmask (the missing component is not read as 0), assign_bits   *)
(* never returns, nothing is written, and the step that reaches the union  *)
(* ends the run with an error.                                             *)
(***************************************************************************)
UndefinedAt(n) ==
    \E c \in Range(AllUnions[n].components) :
        c \notin Range(BASIC_TYPES) \cup {AllUnions[m].name : m \in 1..(n - 1)}

C7_UndefinedComponentAborts ==
    /\ [](\A n \in 1..Len(AllUnions) :
            UndefinedAt(n) =>
                /\ u <= n
                /\ AllUnions[n].name \notin DOMAIN bits
                /\ ~AssignBitsReturned
                /\ out = <<>>)
    /\ [][(pc = "assign" /\ i > Len(BASIC_TYPES) /\ u <= Len(AllUnions) /\ UndefinedAt(u))
            => (pc' = "error" /\ bits' = bits /\ out' = <<>>)]_vars

C7_Witness ==
    /\ pc = "error"
    /\ tables = LaterUnionTables
    /\ AllUnions[u].name = S_CInt
    /\ UndefinedAt(u)
    /\ S_Primitive \in DOMAIN bits
    /\ out = <<>>

(***************************************************************************)
(* C8: if a name occurs twice in the basic-type list, generation fails     *)
(* during generation instead of producing a lattice.                       *)
(***************************************************************************)
HasDuplicateBasic ==
    \E n, m \in 1..Len(BASIC_TYPES) : n # m /\ BASIC_TYPES[n] = BASIC_TYPES[m]

C8_DuplicateBasicFails == HasDuplicateBasic => ~AssignBitsReturned

(***************************************************************************)
(* C9: every record pads name-plus-comma to the maximum of len(name)+1     *)
(* over all entries and renders the bitmask as a "0x" literal, zero-padded *)
(* to the number of hex digits of the largest bitmask plus 2; no name or   *)
(* literal is wider than its column, so all records have the same length,  *)
(* and the literal reads back as the entry's bitmask (Bottom is all zero   *)
(* digits).                                                                *)
(***************************************************************************)
NameColumn(w) == SubSeq(w, 8, 7 + max_ty_len)

LiteralColumn(w) == SubSeq(w, 9 + max_ty_len, 8 + max_ty_len + max_bits_len)

C9_RecordFormat ==
    pc \in {"records", "done"} =>
        /\ max_ty_len = MaxOf({Len(types[n].name) + 1 : n \in 1..Len(types)})
        /\ max_bits_len = MaxOf({NumHexDigits(types[n].bits) + 2 : n \in 1..Len(types)})
        /\ max_bits_len = NumHexDigits(MaxOf({types[n].bits : n \in 1..Len(types)})) + 2
        /\ \A n \in 1..Len(Records) :
              LET w == Records[n]
                  name == types[n].name
                  lit == LiteralColumn(w)
              IN  /\ Len(w) = 11 + max_ty_len + max_bits_len
                  /\ SubSeq(w, 1, 7) = <<" ", "\\", "\n", " ", " ", "X", "(">>
                  /\ Len(name) + 1 <= max_ty_len
                  /\ SubSeq(NameColumn(w), 1, Len(name) + 1) = name \o <<",">>
                  /\ \A m \in (Len(name) + 2)..max_ty_len : NameColumn(w)[m] = " "
                  /\ w[8 + max_ty_len] = " "
                  /\ NumHexDigits(types[n].bits) + 2 <= max_bits_len
                  /\ lit[1] = "0" /\ lit[2] = "x"
                  /\ \A m \in 3..max_bits_len : IsHexDigit(lit[m])
                  /\ ParseInt(SubSeq(lit, 3, max_bits_len), 16) = types[n].bits
                  /\ name = S_Bottom => \A m \in 3..max_bits_len : lit[m] = "0"
                  /\ SubSeq(w, 9 + max_ty_len + max_bits_len, Len(w)) = <<"U", "L", ")">>

C9_Witness ==
    /\ pc = "done"
    /\ max_ty_len = 16
    /\ max_bits_len = 8
    /\ \E n \in 1..Len(Records) :
          /\ RecordName(Records[n]) = S_Bottom
          /\ LiteralColumn(Records[n]) = <<"0", "x", "0", "0", "0", "0", "0", "0">>
    /\ \E n \in 1..Len(Records) :
          /\ RecordName(Records[n]) = S_Top
          /\ LiteralColumn(Records[n]) = <<"0", "x", "7", "f", "f", "f", "f", "f">>

(***************************************************************************)
(* C10: Primitive has exactly the bits of the basic types that are not     *)
(* Python object types: it is disjoint from Object and together with       *)
(* Object makes Top.  So no T entry of a basic Python type or              *)
(* PYTYPE_UNIONS name has the Nullptr bit, and each OptT has the bits of   *)
(* its T and the Nullptr bit, which T lacks.                               *)
(***************************************************************************)
C10_PrimitiveComplementsObject ==
    /\ AssignBitsReturned =>
          /\ SetBits(bits[S_Primitive]) =
                UNION {SetBits(bits[b]) : b \in Range(BASIC_TYPES) \ Range(tables.basic_pytypes)}
          /\ SetBits(bits[S_Primitive]) \cap SetBits(bits[S_Object]) = {}
          /\ SetBits(bits[S_Primitive]) \cup SetBits(bits[S_Object]) = SetBits(bits[S_Top])
    /\ GenerateTypesReturned =>
          \A T \in Range(OptEligible) :
              \A n \in Entries(T), m \in Entries(S_Opt \o T) :
                  /\ SetBits(types[n].bits) \cap SetBits(bits[S_Nullptr]) = {}
                  /\ SetBits(types[m].bits) \ SetBits(types[n].bits) = SetBits(bits[S_Nullptr])
                  /\ SetBits(types[n].bits) \subseteq SetBits(types[m].bits)
                  /\ Cardinality(SetBits(bits[S_Nullptr])) = 1

C10_Witness ==
    /\ GenerateTypesReturned
    /\ bits[S_Primitive] = 8386560
    /\ bits[S_Object] = 2047
    /\ Entries(S_Opt \o S_User) # {}
    /\ Entries(S_User) # {}

====
